---- MODULE Spec2Model ----
(***************************************************************************)
(* Model of the Enka fetch orchestrator (enka_fetch.rs): the worker pool,  *)
(* the per-proxy scheduler and failure accounting, the direct-mode circuit *)
(* breaker, the endpoint fetch protocol and the result sink.               *)
(*                                                                         *)
(* Conventions.  Option<T> is a sequence of length <= 1 (None = <<>>,      *)
(* Some(x) = <<x>>).  Instants and durations are integers (milliseconds).  *)
(* Rust indices are 0-based; the sequences here are 1-based, so entry idx  *)
(* of a Rust Vec is element idx + 1 of the sequence.                       *)
(***************************************************************************)
EXTENDS Integers, Sequences, FiniteSets, TLC

VARIABLES
  args,               \* Args, as parsed by clap
  stdin,              \* what standard input holds, line by line
  uids,               \* the batch, Arc<Vec<u64>>
  run_result,         \* what run() returned: None while it runs
  net,                \* the answers the network can give in this run
  main_pc,            \* position of run()'s own task
  concurrency,        \* number of workers spawned
  now,                \* the monotonic clock read by Instant::now()
  stop,               \* AtomicBool
  next_idx,           \* AtomicUsize, the dispatch cursor
  consecutive_fails,  \* AtomicUsize, direct mode's global fault counter
  proxy_states,       \* Vec<Arc<Mutex<ProxyState>>>: the guarded data
  guard,              \* per proxy entry: <<>> when free, <<w>> when held by w
  wk,                 \* per worker: position in the loop and its locals
  chan,               \* the unbounded mpsc queue
  tx_open,            \* run()'s own sender is still alive
  writer_done,        \* the writer task has returned
  stdout,             \* the lines printed by the writer, in order
  hist                \* history (not program state): what has happened so far

vars == <<args, stdin, uids, run_result, net, main_pc, concurrency, now, stop, next_idx,
          consecutive_fails, proxy_states, guard, wk, chan, tx_open, writer_done, stdout, hist>>

----------------------------------------------------------------------------
(* Bounds of the model. *)

\* Largest batch explored by the worker-pool specification.
NumUids == 3
\* The clock ticks freely up to MaxTime; beyond it only while a worker sleeps.
MaxTime == 2
\* Widest requested concurrency and proxy count of the argument specification.
MaxArg == 60

Min(a, b) == IF a < b THEN a ELSE b
Max(a, b) == IF a > b THEN a ELSE b

None == <<>>
Some(x) == <<x>>

----------------------------------------------------------------------------
(* Pure helpers of enka_fetch.rs. *)

\* body.trim_start().starts_with('<'); a body is a sequence of characters.
IsWhitespace(c) == c \in {" ", "\t", "\n", "\r"}

RECURSIVE TrimStart(_)
TrimStart(body) ==
  IF body # <<>> /\ IsWhitespace(Head(body)) THEN TrimStart(Tail(body)) ELSE body

\* Mutant of is_html_body: the leading whitespace is not skipped.
is_html_body_untrimmed(body) == body # <<>> /\ Head(body) = "<"

is_html_body(body) == LET t == TrimStart(body) IN t # <<>> /\ Head(t) = "<"

\* rand_jitter_ms: the set of values fastrand::u64(0..max_jitter) can return.
rand_jitter_ms(max_jitter) == IF max_jitter = 0 THEN {0} ELSE 0 .. (max_jitter - 1)

\* The game names, as strings.
GameGs  == <<"g", "s">>
GameSr  == <<"s", "r">>
GameZzz == <<"z", "z", "z">>

\* build_urls: the ordered candidate list; a URL is a record naming its base.
build_urls(game, uid) ==
  CASE game = GameSr  -> << [base |-> "base_url", path |-> "api/hsr/uid", uid |-> uid] >>
    [] game = GameZzz -> << [base |-> "enka.network", path |-> "api/zzz/uid", uid |-> uid],
                          [base |-> "profile.microgg.cn", path |-> "api/zzz/uid", uid |-> uid] >>
    [] OTHER        -> << [base |-> "base_url", path |-> "api/uid", uid |-> uid] >>

----------------------------------------------------------------------------
(* Endpoint fetch protocol: fetch_one.                                     *)
(* What the network answers to one candidate is an input:                  *)
(*   kind "send_err"  send() returned an error (connect, DNS, TLS, ...)    *)
(*   kind "timeout"   the tokio timeout elapsed                            *)
(*   kind "body_err"  a response with `status` arrived, reading its body   *)
(*                    failed                                               *)
(*   kind "text"      a response with `status` and body `text` arrived     *)
(* The elapsed-time field `ms` of FetchResult is not modelled.             *)

\* u64::MAX, scaled down to what the model checker's integers hold.
MaxU64 == 1000000
saturating_add(a, b) == Min(a + b, MaxU64)
saturating_mul(a, b) == Min(a * b, MaxU64)

\* Length of the diagnostic excerpt kept of a body.
ExcerptLen == 300
\* 5 * 60_000 ms, the floor of the advisory retry-after.
RetryFloorMs == 300000

body_short(text) ==
  IF Len(text) > ExcerptLen THEN SubSeq(text, 1, ExcerptLen) \o <<".", ".", ".">> ELSE text

\* The last_* locals of fetch_one before the first candidate.
NoLast == [status |-> None, is_html |-> FALSE, error |-> None, base |-> None]

\* The value returned at lines 267-279.
SuccessResult(uid, status, text, url, proxy_url) ==
  [uid |-> uid, ok |-> TRUE, status |-> Some(status), is_html |-> FALSE,
   body |-> Some(text), error |-> None, proxy |-> proxy_url, base |-> Some(url),
   retry_after_ms |-> None, proxy_disabled |-> None]

\* Mutant of FailureResult: every failure that has a status carries the advisory.
FailureResultAlwaysAdvises(uid, last, delay_ms, proxy_url) ==
  [uid |-> uid, ok |-> FALSE, status |-> last.status, is_html |-> last.is_html,
   body |-> None,
   error |-> Some(IF last.error = None THEN <<"transport_error">> ELSE last.error[1]),
   proxy |-> proxy_url, base |-> last.base,
   retry_after_ms |-> IF last.status # None
                        THEN Some(Max(RetryFloorMs, saturating_mul(delay_ms, 10)))
                        ELSE None,
   proxy_disabled |-> None]

\* The value returned at lines 299-317.
FailureResult(uid, last, delay_ms, proxy_url) ==
  [uid |-> uid, ok |-> FALSE, status |-> last.status, is_html |-> last.is_html,
   body |-> None,
   error |-> Some(IF last.error = None THEN <<"transport_error">> ELSE last.error[1]),
   proxy |-> proxy_url, base |-> last.base,
   retry_after_ms |-> IF last.status = Some(429)
                        THEN Some(Max(RetryFloorMs, saturating_mul(delay_ms, 10)))
                        ELSE None,
   proxy_disabled |-> None]

\* Mutant of FetchLoop: a candidate that fails ends the loop, the next one is not tried.
FetchLoopNoFallback(urls, resps, i, last, uid, delay_ms, proxy_url) ==
  IF i > Len(urls) THEN FailureResult(uid, last, delay_ms, proxy_url)
  ELSE LET url == urls[i]
           a   == resps[i]
           html == is_html_body(a.text)
       IN CASE a.kind \in {"send_err", "timeout"} ->
                 FailureResult(uid, [status |-> None, is_html |-> FALSE,
                                     error |-> Some(<<a.kind>>), base |-> Some(url)],
                               delay_ms, proxy_url)
            [] a.kind = "body_err" ->
                 FailureResult(uid, [status |-> Some(a.status), is_html |-> FALSE,
                                     error |-> Some(<<"body_err">>), base |-> Some(url)],
                               delay_ms, proxy_url)
            [] OTHER ->
                 IF a.status = 200 /\ ~html
                   THEN SuccessResult(uid, a.status, a.text, url, proxy_url)
                   ELSE FailureResult(uid,
                          [status |-> Some(a.status), is_html |-> html,
                           error |-> Some(<<"http", a.status, html, body_short(a.text)>>),
                           base |-> Some(url)], delay_ms, proxy_url)

\* Mutant of FetchLoop: a transport error or timeout keeps the status and the HTML
\* flag an earlier candidate left.
RECURSIVE FetchLoopStaleStatus(_, _, _, _, _, _, _)
FetchLoopStaleStatus(urls, resps, i, last, uid, delay_ms, proxy_url) ==
  IF i > Len(urls) THEN FailureResult(uid, last, delay_ms, proxy_url)
  ELSE LET url == urls[i]
           a   == resps[i]
       IN CASE a.kind \in {"send_err", "timeout"} ->
                 FetchLoopStaleStatus(urls, resps, i + 1,
                   [status |-> last.status, is_html |-> last.is_html,
                    error |-> Some(<<a.kind>>), base |-> Some(url)],
                   uid, delay_ms, proxy_url)
            [] a.kind = "body_err" ->
                 FetchLoopStaleStatus(urls, resps, i + 1,
                   [status |-> Some(a.status), is_html |-> FALSE,
                    error |-> Some(<<"body_err">>), base |-> Some(url)],
                   uid, delay_ms, proxy_url)
            [] OTHER ->
                 LET html == is_html_body(a.text) IN
                 IF a.status = 200 /\ ~html
                   THEN SuccessResult(uid, a.status, a.text, url, proxy_url)
                   ELSE FetchLoopStaleStatus(urls, resps, i + 1,
                          [status |-> Some(a.status), is_html |-> html,
                           error |-> Some(<<"http", a.status, html, body_short(a.text)>>),
                           base |-> Some(url)], uid, delay_ms, proxy_url)

\* The for loop of lines 227-297 from candidate i on; resps[i] is the answer to urls[i].
RECURSIVE FetchLoop(_, _, _, _, _, _, _)
FetchLoop(urls, resps, i, last, uid, delay_ms, proxy_url) ==
  IF i > Len(urls) THEN FailureResult(uid, last, delay_ms, proxy_url)
  ELSE LET url == urls[i]
           a   == resps[i]
       IN CASE a.kind = "send_err" ->
                 FetchLoop(urls, resps, i + 1,
                   [status |-> None, is_html |-> FALSE, error |-> Some(<<"send_err">>),
                    base |-> Some(url)], uid, delay_ms, proxy_url)
            [] a.kind = "timeout" ->
                 FetchLoop(urls, resps, i + 1,
                   [status |-> None, is_html |-> FALSE, error |-> Some(<<"timeout">>),
                    base |-> Some(url)], uid, delay_ms, proxy_url)
            [] a.kind = "body_err" ->
                 FetchLoop(urls, resps, i + 1,
                   [status |-> Some(a.status), is_html |-> FALSE,
                    error |-> Some(<<"body_err">>), base |-> Some(url)],
                   uid, delay_ms, proxy_url)
            [] OTHER ->
                 LET html == is_html_body(a.text) IN
                 IF a.status = 200 /\ ~html
                   THEN SuccessResult(uid, a.status, a.text, url, proxy_url)
                   ELSE FetchLoop(urls, resps, i + 1,
                          [status |-> Some(a.status), is_html |-> html,
                           error |-> Some(<<"http", a.status, html, body_short(a.text)>>),
                           base |-> Some(url)], uid, delay_ms, proxy_url)

fetch_one(game, uid, delay_ms, proxy_url, resps) ==
  FetchLoop(build_urls(game, uid), resps, 1, NoLast, uid, delay_ms, proxy_url)

\* Number of candidates fetch_one actually tried: it stops at the first success.
RECURSIVE Tried(_, _)
Tried(resps, i) ==
  IF i > Len(resps) THEN Len(resps)
  ELSE IF resps[i].kind = "text" /\ resps[i].status = 200 /\ ~is_html_body(resps[i].text)
         THEN i ELSE Tried(resps, i + 1)

\* The answers the worker-pool specification lets the network give.
Answer(kind, status, text) == [kind |-> kind, status |-> status, text |-> text]
JsonBody == <<"{", "}">>
HtmlBody == <<" ", "<", "h", ">">>
Answers ==
  { Answer("send_err", 0, <<>>),
    Answer("text", 200, JsonBody),
    Answer("text", 200, HtmlBody),
    Answer("text", 429, JsonBody),
    Answer("text", 503, JsonBody) }

----------------------------------------------------------------------------
(* Text arguments: lists, identifiers, the game name, proxy URLs.          *)
(* A string is a sequence of one-character strings.                        *)

\* Result<T>: Ok(value) or Err(error).
Ok(v)  == [ok |-> TRUE, value |-> v, error |-> <<>>]
Err(e) == [ok |-> FALSE, value |-> <<>>, error |-> e]

RECURSIVE TrimEnd(_)
TrimEnd(s) ==
  IF s # <<>> /\ IsWhitespace(s[Len(s)]) THEN TrimEnd(SubSeq(s, 1, Len(s) - 1)) ELSE s

\* str::trim
Trim(s) == TrimEnd(TrimStart(s))

\* The separator test of parse_list.
IsSeparator(c) == c = "," \/ c = ";" \/ IsWhitespace(c)

\* str::split on the separator test: every piece, the empty ones too.
RECURSIVE Split(_)
Split(raw) ==
  IF \A i \in DOMAIN raw : ~IsSeparator(raw[i]) THEN <<raw>>
  ELSE LET at == CHOOSE i \in DOMAIN raw :
                   IsSeparator(raw[i]) /\ \A j \in 1 .. i - 1 : ~IsSeparator(raw[j])
       IN <<SubSeq(raw, 1, at - 1)>> \o Split(SubSeq(raw, at + 1, Len(raw)))

NonEmpty(s) == s # <<>>

\* parse_list: split, trim each piece, drop the empty ones.
parse_list(raw) ==
  LET pieces == Split(raw)
  IN SelectSeq([i \in DOMAIN pieces |-> Trim(pieces[i])], NonEmpty)

\* <u64 as FromStr>::from_str, what `s.parse()` runs: an optional '+', then one or
\* more decimal digits whose value fits; None stands for the ParseIntError.
DigitChars == <<"0", "1", "2", "3", "4", "5", "6", "7", "8", "9">>
IsDigit(c) == \E d \in DOMAIN DigitChars : DigitChars[d] = c
DigitValue(c) == (CHOOSE d \in DOMAIN DigitChars : DigitChars[d] = c) - 1

RECURSIVE ParseDigits(_, _, _)
ParseDigits(s, i, acc) ==
  IF i > Len(s) THEN Some(acc)
  ELSE IF ~IsDigit(s[i]) THEN None
  ELSE LET v == acc * 10 + DigitValue(s[i])
       IN IF v > MaxU64 THEN None ELSE ParseDigits(s, i + 1, v)

parse_u64(s) ==
  LET digits == IF s # <<>> /\ s[1] = "+" THEN Tail(s) ELSE s
  IN IF digits = <<>> THEN None ELSE ParseDigits(digits, 1, 0)

\* The parse loops of read_uids: the first token that does not parse ends them with
\* its error.
ParseAll(tokens) ==
  LET bad == {i \in DOMAIN tokens : parse_u64(tokens[i]) = None}
  IN IF bad # {}
       THEN Err(<<"invalid uid", tokens[CHOOSE i \in bad : \A j \in bad : i <= j]>>)
       ELSE Ok([i \in DOMAIN tokens |-> parse_u64(tokens[i])[1]])

\* The range of lines 142-151.
RangeUids(start, count) == [i \in 1 .. count |-> saturating_add(start, i - 1)]

\* Mutant of read_uids: an inline list is preferred to the piped one.
read_uids_inline_first(a, input) ==
  LET lines  == SelectSeq([i \in DOMAIN input |-> Trim(input[i])], NonEmpty)
      piped  == IF a.uids_stdin THEN ParseAll(lines) ELSE Ok(<<>>)
      inline == IF a.uids # None THEN ParseAll(parse_list(a.uids[1])) ELSE Ok(<<>>)
  IN IF ~inline.ok \/ inline.value # <<>> THEN inline
     ELSE IF ~piped.ok \/ piped.value # <<>> THEN piped
     ELSE IF a.uid_start # None /\ a.count # None
       THEN IF a.count[1] = 0 THEN Err(<<"count must be > 0">>)
            ELSE Ok(RangeUids(a.uid_start[1], a.count[1]))
     ELSE Err(<<"missing uids input">>)

\* read_uids; `input` is what stdin holds, line by line.
read_uids(a, input) ==
  LET lines  == SelectSeq([i \in DOMAIN input |-> Trim(input[i])], NonEmpty)
      piped  == IF a.uids_stdin THEN ParseAll(lines) ELSE Ok(<<>>)
      inline == IF a.uids # None THEN ParseAll(parse_list(a.uids[1])) ELSE Ok(<<>>)
  IN IF ~piped.ok \/ piped.value # <<>> THEN piped
     ELSE IF ~inline.ok \/ inline.value # <<>> THEN inline
     ELSE IF a.uid_start # None /\ a.count # None
       THEN IF a.count[1] = 0 THEN Err(<<"count must be > 0">>)
            ELSE Ok(RangeUids(a.uid_start[1], a.count[1]))
     ELSE Err(<<"missing uids input">>)

\* str::to_lowercase, over the letters of the game names.
LowerCase(c) ==
  CASE c = "G" -> "g" [] c = "S" -> "s" [] c = "R" -> "r" [] c = "Z" -> "z" [] OTHER -> c
to_lowercase(s) == [i \in DOMAIN s |-> LowerCase(s[i])]

\* line 338: the games run() accepts.
supported_game(g) == ~(g # GameGs /\ g # GameSr /\ g # GameZzz)

\* Proxy::all: whether reqwest accepts the text as a proxy URL.  Of the characters
\* used for URLs here, '[' alone makes one invalid (an unterminated IPv6 literal).
ProxyAllOk(p) == \A i \in DOMAIN p : p[i] # "["

\* Mutant of build_client: the proxy URL is not checked.
build_client_unchecked(proxy_url) == Ok("client")

\* build_client: the client itself is not modelled, only whether one is built.
build_client(proxy_url) ==
  IF proxy_url # None /\ ~ProxyAllOk(proxy_url[1])
    THEN Err(<<"invalid proxy url", proxy_url[1]>>)
    ELSE Ok("client")

----------------------------------------------------------------------------
(* Configuration derived by run() from its arguments (lines 347-395). *)

\* Bounds of the clamps applied to the arguments.
MaxConcurrency == 50
MaxConsecLimit == 200

\* lines 354-360: the number of workers
requested_concurrency(c) == Min(Max(c, 1), MaxConcurrency)

\* Mutant of Concurrency: neither the proxy count nor direct mode limits it.
ConcurrencyRequested(c, nproxy) == requested_concurrency(c)

Concurrency(c, nproxy) ==
  IF nproxy > 0 THEN Min(requested_concurrency(c), Max(nproxy, 1)) ELSE 1

\* line 337
game             == to_lowercase(Trim(args.game))
\* lines 347-352
proxy_urls       == IF args.proxy_urls = None THEN <<>> ELSE parse_list(args.proxy_urls[1])
has_proxy        == proxy_urls # <<>>
delay_ms         == args.delay_ms
jitter_max_ms    == args.jitter_ms
no_proxy_delay_ms == args.no_proxy_delay_ms
proxy_max_consec == Min(Max(args.proxy_max_consecutive_fails, 1), MaxConsecLimit)
breaker_max      == Min(Max(args.breaker_max_consecutive_fails, 1), MaxConsecLimit)
breaker_on_429   == args.breaker_on_429

\* ProxyState as built at lines 369-375 (the reqwest client is not modelled).
NewProxyState(url, t) ==
  [url |-> url, disabled |-> FALSE, consecutive_fails |-> 0, next_at |-> t]

\* A worker's locals when its task is spawned (line 416), before it first runs.
NewWorker ==
  [pc |-> "start", cur |-> 0, uid |-> 0, proxy_idx_hint |-> 0, direct_next_at |-> 0,
   step |-> 0, pidx |-> 0, wake |-> 0, r |-> None, proxy_disabled |-> None]

Workers == DOMAIN wk
\* worker_id of the w-th spawned task (for worker_id in 0..concurrency)
worker_id(w) == w - 1

\* The empty history.
NoHist ==
  [claims |-> <<>>, dispatches |-> <<>>, exhausted |-> FALSE, saw429 |-> <<>>,
   off_at_pick |-> <<>>, resps |-> <<>>, sent |-> <<>>]

----------------------------------------------------------------------------
(* The arguments, inputs and network behaviour explored. *)

Ok200   == Answer("text", 200, JsonBody)
Html200 == Answer("text", 200, HtmlBody)
Limited == Answer("text", 429, JsonBody)
Down503 == Answer("text", 503, JsonBody)
SendErr == Answer("send_err", 0, <<>>)

\* The text "1,2,...,n" and the lines "1", ..., "n" (n <= 9).
UidText(n) ==
  [k \in 1 .. 2 * n - 1 |-> IF k % 2 = 1 THEN DigitChars[((k + 1) \div 2) + 1] ELSE ","]
UidLines(n) == [k \in 1 .. n |-> <<DigitChars[k + 1]>>]

\* The three ways of naming a batch of n identifiers.
FromRange(n)  == [uids_stdin |-> FALSE, uids |-> None, uid_start |-> Some(100),
                  count |-> Some(n)]
FromInline(n) == [uids_stdin |-> FALSE, uids |-> Some(UidText(n)), uid_start |-> None,
                  count |-> None]
FromStdin     == [uids_stdin |-> TRUE, uids |-> None, uid_start |-> None, count |-> None]

\* The text "aa,ab,...": n distinct proxy URLs (n <= 64), each followed by a comma.
UrlChars == <<"a", "b", "c", "d", "e", "f", "g", "h">>
ProxyText(n) ==
  [k \in 1 .. 3 * n |->
     LET i == (k - 1) \div 3
     IN CASE (k - 1) % 3 = 0 -> UrlChars[(i \div 8) + 1]
          [] (k - 1) % 3 = 1 -> UrlChars[(i % 8) + 1]
          [] OTHER           -> ","]

\* The runs explored.  Timed runs have one worker per mode; the runs with two workers
\* racing on two entries are untimed, or timed over a shorter batch.
PoolTimed ==
  { [args |-> FromRange(NumUids) @@ a, stdin |-> <<>>, net |-> {Ok200, Limited, Down503}] :
    a \in [game : {GameGs}, concurrency : {1}, proxy_urls : {Some(ProxyText(1))},
           delay_ms : {1}, jitter_ms : {0, 2}, no_proxy_delay_ms : {1},
           proxy_max_consecutive_fails : {2}, breaker_max_consecutive_fails : {2},
           breaker_on_429 : {TRUE}] }

PoolAcct ==
  { [args |-> FromInline(NumUids) @@ a, stdin |-> <<>>, net |-> Answers] :
    a \in [game : {GameGs, GameZzz}, concurrency : {1}, proxy_urls : {Some(ProxyText(1))},
           delay_ms : {0}, jitter_ms : {0}, no_proxy_delay_ms : {0},
           proxy_max_consecutive_fails : {0, 2}, breaker_max_consecutive_fails : {2},
           breaker_on_429 : {TRUE}] }

PoolRace ==
  { [args |-> FromRange(NumUids) @@ a, stdin |-> <<>>, net |-> {Ok200, Limited, SendErr}] :
    a \in [game : {GameGs}, concurrency : {3}, proxy_urls : {Some(ProxyText(2))},
           delay_ms : {0}, jitter_ms : {0}, no_proxy_delay_ms : {0},
           proxy_max_consecutive_fails : {2}, breaker_max_consecutive_fails : {2},
           breaker_on_429 : {TRUE}] }

PoolRaceTimed ==
  { [args |-> FromRange(NumUids - 1) @@ a, stdin |-> <<>>, net |-> {Ok200}] :
    a \in [game : {GameGs}, concurrency : {2}, proxy_urls : {Some(ProxyText(2))},
           delay_ms : {1}, jitter_ms : {0}, no_proxy_delay_ms : {1},
           proxy_max_consecutive_fails : {1}, breaker_max_consecutive_fails : {2},
           breaker_on_429 : {TRUE}] }

\* One request through one entry whose delay is long, or at the top of the u64 range.
PoolHuge ==
  { [args |-> FromRange(1) @@ a, stdin |-> <<>>, net |-> {Ok200, Limited}] :
    a \in [game : {GameGs}, concurrency : {1}, proxy_urls : {Some(ProxyText(1))},
           delay_ms : {40000, MaxU64}, jitter_ms : {2}, no_proxy_delay_ms : {0},
           proxy_max_consecutive_fails : {2}, breaker_max_consecutive_fails : {2},
           breaker_on_429 : {TRUE}] }

DirectTimed ==
  { [args |-> FromRange(NumUids) @@ a, stdin |-> <<>>, net |-> {Ok200, Limited, Down503}] :
    a \in [game : {GameGs}, concurrency : {2}, proxy_urls : {None},
           delay_ms : {1}, jitter_ms : {0, 2}, no_proxy_delay_ms : {0, 2},
           proxy_max_consecutive_fails : {2}, breaker_max_consecutive_fails : {2},
           breaker_on_429 : {FALSE}] }

DirectAcct ==
  { [args |-> FromStdin @@ a, stdin |-> UidLines(NumUids), net |-> Answers] :
    a \in [game : {GameGs, GameZzz}, concurrency : {2}, proxy_urls : {None},
           delay_ms : {0}, jitter_ms : {0}, no_proxy_delay_ms : {0},
           proxy_max_consecutive_fails : {2}, breaker_max_consecutive_fails : {0, 2},
           breaker_on_429 : BOOLEAN] }

\* Runs whose arguments run() rejects: a game it does not know, no identifier source,
\* an identifier that is no number, a count of zero, a proxy URL that is none.
PlainArgs ==
  FromRange(2) @@
  [game |-> GameGs, concurrency |-> 2, proxy_urls |-> Some(ProxyText(2)), delay_ms |-> 0,
   jitter_ms |-> 0, no_proxy_delay_ms |-> 0, proxy_max_consecutive_fails |-> 2,
   breaker_max_consecutive_fails |-> 2, breaker_on_429 |-> TRUE]

BadConfig ==
  { [args |-> [PlainArgs EXCEPT !.game = <<"g", "i">>], stdin |-> <<>>, net |-> {Ok200}],
    [args |-> [PlainArgs EXCEPT !.uid_start = None], stdin |-> <<>>, net |-> {Ok200}],
    [args |-> [PlainArgs EXCEPT !.uids = Some(<<"1", ",", "x">>)], stdin |-> <<>>,
     net |-> {Ok200}],
    [args |-> [PlainArgs EXCEPT !.uids_stdin = TRUE, !.proxy_urls = None],
     stdin |-> <<<<"1">>, <<"-", "2">>>>, net |-> {Ok200}],
    [args |-> [PlainArgs EXCEPT !.count = Some(0)], stdin |-> <<>>, net |-> {Ok200}],
    [args |-> [PlainArgs EXCEPT !.count = Some(0), !.proxy_urls = None], stdin |-> <<>>,
     net |-> {Ok200}],
    [args |-> [PlainArgs EXCEPT !.proxy_urls = Some(<<"a", " ", "[", "b">>)],
     stdin |-> <<>>, net |-> {Ok200}],
    [args |-> [PlainArgs EXCEPT !.uids_stdin = TRUE, !.proxy_urls = Some(<<"[", ";", "a">>)],
     stdin |-> <<<<"1">>, <<"2">>>>, net |-> {Ok200}] }

Scenarios ==
  PoolTimed \cup PoolAcct \cup PoolRace \cup PoolRaceTimed \cup PoolHuge \cup DirectTimed
    \cup DirectAcct \cup BadConfig

\* The process starts: run() has been called with `a`, and nothing exists yet.
InitWith(a, input, answers) ==
  /\ args = a
  /\ stdin = input
  /\ uids = <<>>
  /\ run_result = None
  /\ net = answers
  /\ main_pc = "start"
  /\ concurrency = 0
  /\ now = 0
  /\ stop = FALSE
  /\ next_idx = 0
  /\ consecutive_fails = 0
  /\ proxy_states = <<>>
  /\ guard = <<>>
  /\ wk = <<>>
  /\ chan = <<>>
  /\ tx_open = FALSE
  /\ writer_done = FALSE
  /\ stdout = <<>>
  /\ hist = NoHist

Init == \E sc \in Scenarios : InitWith(sc.args, sc.stdin, sc.net)

----------------------------------------------------------------------------
(* run(): construction (lines 336-414). *)

\* run() returns the error of one of its `?` or of line 339: nothing was started.
Fail(e) ==
  /\ main_pc' = "error"
  /\ run_result' = Some(e)
  /\ UNCHANGED <<args, stdin, uids, net, concurrency, now, stop, next_idx, consecutive_fails,
                 proxy_states, guard, wk, chan, tx_open, writer_done, stdout, hist>>

\* lines 353-414: the shared state is built, the writer and the workers are spawned.
Start(batch, urls) ==
  /\ uids' = batch
  /\ concurrency' = Concurrency(args.concurrency, Len(urls))
  /\ stop' = FALSE
  /\ next_idx' = 0
  /\ proxy_states' = [i \in DOMAIN urls |-> NewProxyState(urls[i], now)]
  /\ guard' = [i \in DOMAIN urls |-> None]
  /\ consecutive_fails' = 0
  /\ chan' = <<>>
  /\ tx_open' = TRUE
  /\ writer_done' = FALSE
  /\ wk' = [w \in 1 .. concurrency' |-> NewWorker]
  /\ hist' = [NoHist EXCEPT !.claims = [i \in 1 .. Len(batch) |-> 0],
                            !.saw429 = [w \in 1 .. concurrency' |-> FALSE],
                            !.off_at_pick = [w \in 1 .. concurrency' |-> {}],
                            !.resps = [w \in 1 .. concurrency' |-> <<>>]]
  /\ main_pc' = "join"
  /\ UNCHANGED <<args, stdin, run_result, net, now, stdout>>

\* The checks of run() in the order the code makes them (game, identifiers, one client
\* per proxy URL in list order, or the direct client), then the construction; `ids` is
\* what read_uids returned and `urls` the parsed proxy list.
Construct(ids, urls) ==
  LET clients == IF urls # <<>>
                   THEN [i \in DOMAIN urls |-> build_client(Some(urls[i]))]
                   ELSE <<build_client(None)>>
      failed  == {i \in DOMAIN clients : ~clients[i].ok}
  IN IF ~supported_game(game) THEN Fail(Err(<<"unsupported game", args.game>>))
     ELSE IF ~ids.ok THEN Fail(ids)
     ELSE IF failed # {}
       THEN Fail(clients[CHOOSE i \in failed : \A j \in failed : i <= j])
     ELSE Start(ids.value, urls)

\* run() up to the spawning of its tasks.
Setup ==
  /\ main_pc = "start"
  /\ Construct(read_uids(args, stdin), proxy_urls)

----------------------------------------------------------------------------
(* The worker loop (lines 416-519). *)

Pc(w) == wk[w].pc
Goto(w, label) == [wk EXCEPT ![w].pc = label]

\* Mutants of FetchAdd: the increment is lost; a position is skipped.
FetchAddLost(v) == v
FetchAddSkip(v) == v + 2

\* fetch_add(1) on the cursor: the value stored.
FetchAdd(v) == v + 1

\* Instant::saturating_duration_since
saturating_duration_since(later, earlier) == Max(0, later - earlier)

\* Mutant of Reserve: the wait is the plain difference.
ReserveUnclamped(next_at, t, interval) ==
  [wait |-> next_at - t, next_at |-> t + interval]

\* The wait/advance discipline of lines 440-443 and 494-496.
Reserve(next_at, t, interval) ==
  [wait |-> saturating_duration_since(next_at, t), next_at |-> t + interval]

\* Mutant of ScanIdx: the scan starts at the first entry whatever the hint.
ScanIdxFromZero(start_idx, step, n) == step % n

\* pick_proxy_index: the entry inspected at scan position `step` from hint `start_idx`.
ScanIdx(start_idx, step, n) == (Min(start_idx, n - 1) + step) % n

\* Mutant of Selectable: the flag is not looked at.
SelectableAny(st) == TRUE

\* pick_proxy_index, line 329: the test made under the entry's guard.
Selectable(st) == ~st.disabled

\* Proxy failure tracking, lines 462-478: the entry and the flag it leaves.
is_proxy_fail(r) == r.status = None \/ r.is_html \/ r.status = Some(429)

\* Mutants of ProxyAccount: a success re-enables the entry; a 429 disables only at
\* the threshold.
ProxyAccountReenable(st, r, max_consec) ==
  IF ~r.ok
    THEN LET fails == IF is_proxy_fail(r) THEN st.consecutive_fails + 1
                                           ELSE st.consecutive_fails
             off   == \/ r.status = Some(429)
                      \/ is_proxy_fail(r) /\ fails >= max_consec
         IN [st |-> [st EXCEPT !.consecutive_fails = fails,
                               !.disabled = IF off THEN TRUE ELSE st.disabled],
             proxy_disabled |-> IF off THEN Some(TRUE) ELSE None]
    ELSE [st |-> [st EXCEPT !.consecutive_fails = 0, !.disabled = FALSE],
          proxy_disabled |-> None]

ProxyAccountAtThreshold(st, r, max_consec) ==
  IF ~r.ok
    THEN LET fails == IF is_proxy_fail(r) THEN st.consecutive_fails + 1
                                           ELSE st.consecutive_fails
             off   == is_proxy_fail(r) /\ fails >= max_consec
         IN [st |-> [st EXCEPT !.consecutive_fails = fails,
                               !.disabled = IF off THEN TRUE ELSE st.disabled],
             proxy_disabled |-> IF off THEN Some(TRUE) ELSE None]
    ELSE [st |-> [st EXCEPT !.consecutive_fails = 0], proxy_disabled |-> None]

\* Mutant of ProxyAccount: a 429 also pushes the entry's next_at by the floor of the
\* retry-after.
ProxyAccountBacksOff(st, r, max_consec) ==
  IF ~r.ok
    THEN LET fails == IF is_proxy_fail(r) THEN st.consecutive_fails + 1
                                           ELSE st.consecutive_fails
             off   == \/ r.status = Some(429)
                      \/ is_proxy_fail(r) /\ fails >= max_consec
         IN [st |-> [st EXCEPT !.consecutive_fails = fails,
                               !.disabled = IF off THEN TRUE ELSE st.disabled,
                               !.next_at = IF r.status = Some(429)
                                             THEN st.next_at + RetryFloorMs ELSE st.next_at],
             proxy_disabled |-> IF off THEN Some(TRUE) ELSE None]
    ELSE [st |-> [st EXCEPT !.consecutive_fails = 0], proxy_disabled |-> None]

\* Mutant of ProxyAccount: every failure is reported as having disabled the entry.
ProxyAccountFlagsFailures(st, r, max_consec) ==
  IF ~r.ok
    THEN LET fails == IF is_proxy_fail(r) THEN st.consecutive_fails + 1
                                           ELSE st.consecutive_fails
             off   == \/ r.status = Some(429)
                      \/ is_proxy_fail(r) /\ fails >= max_consec
         IN [st |-> [st EXCEPT !.consecutive_fails = fails,
                               !.disabled = IF off THEN TRUE ELSE st.disabled],
             proxy_disabled |-> Some(TRUE)]
    ELSE [st |-> [st EXCEPT !.consecutive_fails = 0], proxy_disabled |-> None]

\* Mutant of ProxyAccount: the threshold disables only once the count has passed it.
ProxyAccountPastThreshold(st, r, max_consec) ==
  IF ~r.ok
    THEN LET fails == IF is_proxy_fail(r) THEN st.consecutive_fails + 1
                                           ELSE st.consecutive_fails
             off   == \/ r.status = Some(429)
                      \/ is_proxy_fail(r) /\ fails > max_consec
         IN [st |-> [st EXCEPT !.consecutive_fails = fails,
                               !.disabled = IF off THEN TRUE ELSE st.disabled],
             proxy_disabled |-> IF off THEN Some(TRUE) ELSE None]
    ELSE [st |-> [st EXCEPT !.consecutive_fails = 0], proxy_disabled |-> None]

ProxyAccount(st, r, max_consec) ==
  IF ~r.ok
    THEN LET fails == IF is_proxy_fail(r) THEN st.consecutive_fails + 1
                                           ELSE st.consecutive_fails
             off   == \/ r.status = Some(429)
                      \/ is_proxy_fail(r) /\ fails >= max_consec
         IN [st |-> [st EXCEPT !.consecutive_fails = fails,
                               !.disabled = IF off THEN TRUE ELSE st.disabled],
             proxy_disabled |-> IF off THEN Some(TRUE) ELSE None]
    ELSE [st |-> [st EXCEPT !.consecutive_fails = 0], proxy_disabled |-> None]

\* Mutant of DirectBreaker: a 429 trips the breaker only at the threshold.
DirectBreakerAtThreshold(fails, stopped, r, on_429, max_consec) ==
  IF r.ok
    THEN [consecutive_fails |-> 0, stop |-> stopped]
    ELSE LET prev == fails + 1
         IN [consecutive_fails |-> prev,
             stop |-> IF prev >= max_consec THEN TRUE ELSE stopped]

\* Mutant of DirectBreaker: the breaker trips only once the count has passed the threshold.
DirectBreakerPastThreshold(fails, stopped, r, on_429, max_consec) ==
  IF r.ok
    THEN [consecutive_fails |-> 0, stop |-> stopped]
    ELSE LET prev == fails + 1
         IN [consecutive_fails |-> prev,
             stop |-> IF r.status = Some(429) /\ on_429 THEN TRUE
                      ELSE IF prev > max_consec THEN TRUE
                      ELSE stopped]

\* Direct path breaker, lines 503-512: the counter and the stop flag it leaves.
\* The worker is the only task that touches the counter and there is no await between
\* line 504 and line 511, so the block is one step.
DirectBreaker(fails, stopped, r, on_429, max_consec) ==
  IF r.ok
    THEN [consecutive_fails |-> 0, stop |-> stopped]
    ELSE LET prev == fails + 1
         IN [consecutive_fails |-> prev,
             stop |-> IF r.status = Some(429) /\ on_429 THEN TRUE
                      ELSE IF prev >= max_consec THEN TRUE
                      ELSE stopped]

\* The entries (Rust indices) whose disabled flag is set.
DisabledNow == {p - 1 : p \in {q \in DOMAIN proxy_states : proxy_states[q].disabled}}

\* Mutant of LoadStop: the test consumes the flag (a swap(false) for the load).
LoadStopSwap(flag) == [value |-> flag, flag |-> FALSE]

\* stop.load(Relaxed), line 419: the value read, and the flag as the load leaves it.
LoadStop(flag) == [value |-> flag, flag |-> flag]

\* A worker task is polled for the first time: lines 417-418.
WorkerStart(w) ==
  /\ Pc(w) = "start"
  /\ wk' = [wk EXCEPT ![w].pc = "loop",
                      ![w].proxy_idx_hint = worker_id(w),
                      ![w].direct_next_at = now]
  /\ UNCHANGED <<args, stdin, uids, run_result, net, main_pc, concurrency, now, stop, next_idx,
                 consecutive_fails, proxy_states, guard, chan, tx_open, writer_done, stdout,
                 hist>>

\* Loop head, lines 419-426: test the stop flag, claim a cursor position.  The load
\* and the fetch_add are two atomics; stop is only ever written by the single
\* direct-mode worker, so nothing can come between them.
Claim(w) ==
  /\ Pc(w) = "loop"
  /\ stop' = LoadStop(stop).flag
  /\ IF LoadStop(stop).value
       THEN /\ wk' = Goto(w, "exit")
            /\ UNCHANGED <<next_idx, hist>>
       ELSE LET cur == next_idx IN
            /\ next_idx' = FetchAdd(next_idx)
            /\ IF cur >= Len(uids)
                 THEN /\ wk' = Goto(w, "exit")
                      /\ UNCHANGED hist
                 ELSE /\ wk' = [wk EXCEPT ![w].pc = IF proxy_states # <<>> THEN "pick"
                                                                            ELSE "direct",
                                          ![w].cur = cur,
                                          ![w].uid = uids[cur + 1],
                                          ![w].proxy_disabled = None]
                      /\ hist' = [hist EXCEPT !.claims[cur + 1] = @ + 1,
                                               !.off_at_pick[w] = DisabledNow]
  /\ UNCHANGED <<args, stdin, uids, run_result, net, main_pc, concurrency, now,
                 consecutive_fails, proxy_states, guard, chan, tx_open, writer_done, stdout>>

\* Mutant of ReleaseScanned: the guard of an inspected entry is kept.
ReleaseScannedNever(g, idx) == g

\* pick_proxy_index, lines 328-332: `st` goes out of scope at the end of the loop body
\* or at the return, and the guard of entry idx is dropped.
ReleaseScanned(g, idx) == [g EXCEPT ![idx + 1] = None]

\* pick_proxy_index, line 328: take the guard of the entry under inspection.
PickLock(w) ==
  /\ Pc(w) = "pick"
  /\ LET idx == ScanIdx(wk[w].proxy_idx_hint, wk[w].step, Len(proxy_states)) IN
     /\ guard[idx + 1] = None
     /\ guard' = [guard EXCEPT ![idx + 1] = Some(w)]
  /\ wk' = Goto(w, "pick_locked")
  /\ UNCHANGED <<args, stdin, uids, run_result, net, main_pc, concurrency, now, stop, next_idx,
                 consecutive_fails, proxy_states, chan, tx_open, writer_done, stdout, hist>>

\* pick_proxy_index, lines 329-333, and its caller, lines 432-436: inspect the entry,
\* drop the guard; return it, go on scanning, or break out of the loop.
PickInspect(w) ==
  /\ Pc(w) = "pick_locked"
  /\ LET n   == Len(proxy_states)
         idx == ScanIdx(wk[w].proxy_idx_hint, wk[w].step, n)
     IN /\ guard' = ReleaseScanned(guard, idx)
        /\ IF Selectable(proxy_states[idx + 1])
             THEN /\ wk' = [wk EXCEPT ![w].pc = "sched", ![w].pidx = idx, ![w].step = 0,
                                      ![w].proxy_idx_hint = (idx + 1) % n]
                  /\ UNCHANGED hist
             ELSE IF wk[w].step + 1 < n
               THEN /\ wk' = [wk EXCEPT ![w].pc = "pick", ![w].step = @ + 1]
                    /\ UNCHANGED hist
               ELSE /\ wk' = [wk EXCEPT ![w].pc = "exit", ![w].step = 0]
                    /\ hist' = [hist EXCEPT !.exhausted = TRUE, !.off_at_pick[w] = {}]
  /\ UNCHANGED <<args, stdin, uids, run_result, net, main_pc, concurrency, now, stop, next_idx,
                 consecutive_fails, proxy_states, chan, tx_open, writer_done, stdout>>

\* Mutant of DropGuard: the guard outlives the scheduling block.
DropGuardLate(g, p) == g

\* line 445: the scheduling block ends and its MutexGuard is dropped.
DropGuard(g, p) == [g EXCEPT ![p] = None]

\* line 439: take the guard of the picked entry.
SchedLock(w) ==
  /\ Pc(w) = "sched"
  /\ guard[wk[w].pidx + 1] = None
  /\ guard' = [guard EXCEPT ![wk[w].pidx + 1] = Some(w)]
  /\ wk' = Goto(w, "sched_locked")
  /\ UNCHANGED <<args, stdin, uids, run_result, net, main_pc, concurrency, now, stop, next_idx,
                 consecutive_fails, proxy_states, chan, tx_open, writer_done, stdout, hist>>

\* lines 440-448: compute the wait, advance next_at, drop the guard.
Schedule(w) ==
  /\ Pc(w) = "sched_locked"
  /\ \E j \in rand_jitter_ms(jitter_max_ms) :
       LET p   == wk[w].pidx + 1
           st  == proxy_states[p]
           res == Reserve(st.next_at, now, saturating_add(delay_ms, j))
       IN /\ proxy_states' = [proxy_states EXCEPT ![p].next_at = res.next_at]
          /\ guard' = DropGuard(guard, p)
          /\ wk' = [wk EXCEPT ![w].pc = IF res.wait = 0 THEN "fetch" ELSE "sleep",
                              ![w].wake = IF res.wait = 0 THEN 0 ELSE now + res.wait]
          /\ hist' = [hist EXCEPT !.dispatches =
                        Append(@, [proxy |-> Some(wk[w].pidx), at |-> now + res.wait,
                                   was_disabled |-> st.disabled])]
  /\ UNCHANGED <<args, stdin, uids, run_result, net, main_pc, concurrency, now, stop, next_idx,
                 consecutive_fails, chan, tx_open, writer_done, stdout>>

\* lines 489-499: the direct path's pacing on the worker's own direct_next_at.
DirectPace(w) ==
  /\ Pc(w) = "direct"
  /\ \E j \in rand_jitter_ms(jitter_max_ms) :
       LET res == Reserve(wk[w].direct_next_at, now,
                          saturating_add(Max(no_proxy_delay_ms, delay_ms), j))
       IN /\ wk' = [wk EXCEPT ![w].pc = IF res.wait = 0 THEN "fetch" ELSE "sleep",
                              ![w].direct_next_at = res.next_at,
                              ![w].wake = IF res.wait = 0 THEN 0 ELSE now + res.wait]
          /\ hist' = [hist EXCEPT !.dispatches =
                        Append(@, [proxy |-> None, at |-> now + res.wait,
                                   was_disabled |-> FALSE])]
  /\ UNCHANGED <<args, stdin, uids, run_result, net, main_pc, concurrency, now, stop, next_idx,
                 consecutive_fails, proxy_states, guard, chan, tx_open, writer_done, stdout>>

\* sleep(wait_dur) returns: not before the wait has elapsed.
Wake(w) ==
  /\ Pc(w) = "sleep"
  /\ now >= wk[w].wake
  /\ wk' = [wk EXCEPT ![w].pc = "fetch", ![w].wake = 0]
  /\ UNCHANGED <<args, stdin, uids, run_result, net, main_pc, concurrency, now, stop, next_idx,
                 consecutive_fails, proxy_states, guard, chan, tx_open, writer_done, stdout,
                 hist>>

\* Whether one of the candidates fetch_one tried answered with status 429.
Saw429(resps) ==
  \E i \in 1 .. Tried(resps, 1) :
    resps[i].kind \in {"text", "body_err"} /\ resps[i].status = 429

\* lines 450-459 and 501: the HTTP exchange, outside every guard.  fetch_one touches
\* no shared state, so the whole exchange is one step; its duration is the time
\* that passes before this step is taken.
Fetch(w) ==
  /\ Pc(w) = "fetch"
  /\ \E resps \in [1 .. Len(build_urls(game, wk[w].uid)) -> net] :
       LET proxy_url == IF proxy_states # <<>>
                          THEN Some(proxy_states[wk[w].pidx + 1].url) ELSE None
           r == fetch_one(game, wk[w].uid, delay_ms, proxy_url, resps)
       IN /\ wk' = [wk EXCEPT ![w].pc = IF proxy_states # <<>> THEN "acct" ELSE "direct_acct",
                              ![w].r = Some(r)]
          /\ hist' = [hist EXCEPT !.saw429[w] = Saw429(resps), !.resps[w] = resps]
  /\ UNCHANGED <<args, stdin, uids, run_result, net, main_pc, concurrency, now, stop, next_idx,
                 consecutive_fails, proxy_states, guard, chan, tx_open, writer_done, stdout>>

\* lines 463 and 476: take the guard of the entry the request went through.
AcctLock(w) ==
  /\ Pc(w) = "acct"
  /\ guard[wk[w].pidx + 1] = None
  /\ guard' = [guard EXCEPT ![wk[w].pidx + 1] = Some(w)]
  /\ wk' = Goto(w, "acct_locked")
  /\ UNCHANGED <<args, stdin, uids, run_result, net, main_pc, concurrency, now, stop, next_idx,
                 consecutive_fails, proxy_states, chan, tx_open, writer_done, stdout, hist>>

\* lines 462-478: proxy failure tracking under the guard, then drop it.
Account(w) ==
  /\ Pc(w) = "acct_locked"
  /\ LET p   == wk[w].pidx + 1
         res == ProxyAccount(proxy_states[p], wk[w].r[1], proxy_max_consec)
     IN /\ proxy_states' = [proxy_states EXCEPT ![p] = res.st]
        /\ guard' = [guard EXCEPT ![p] = None]
        /\ wk' = [wk EXCEPT ![w].pc = "send", ![w].proxy_disabled = res.proxy_disabled]
  /\ UNCHANGED <<args, stdin, uids, run_result, net, main_pc, concurrency, now, stop, next_idx,
                 consecutive_fails, chan, tx_open, writer_done, stdout, hist>>

\* The locals of one loop iteration go out of scope.
EndIteration(w) ==
  [wk EXCEPT ![w].pc = "loop", ![w].r = None, ![w].proxy_disabled = None,
             ![w].cur = 0, ![w].uid = 0, ![w].pidx = 0]

\* lines 480-485: serialize the record and send it; then `continue`.
Publish(w) ==
  /\ Pc(w) = "send"
  /\ chan' = Append(chan, [wk[w].r[1] EXCEPT !.proxy_disabled = wk[w].proxy_disabled])
  /\ wk' = EndIteration(w)
  /\ hist' = [hist EXCEPT !.saw429[w] = FALSE, !.off_at_pick[w] = {},
                          !.resps[w] = <<>>,
                          !.sent = Append(@, [w |-> w, line |-> chan'[Len(chan')]])]
  /\ UNCHANGED <<args, stdin, uids, run_result, net, main_pc, concurrency, now, stop, next_idx,
                 consecutive_fails, proxy_states, guard, tx_open, writer_done, stdout>>

\* lines 503-512: the direct path's breaker.
DirectAccount(w) ==
  /\ Pc(w) = "direct_acct"
  /\ LET res == DirectBreaker(consecutive_fails, stop, wk[w].r[1], breaker_on_429,
                              breaker_max)
     IN /\ consecutive_fails' = res.consecutive_fails
        /\ stop' = res.stop
  /\ wk' = Goto(w, "direct_send")
  /\ UNCHANGED <<args, stdin, uids, run_result, net, main_pc, concurrency, now, next_idx,
                 proxy_states, guard, chan, tx_open, writer_done, stdout, hist>>

\* lines 514-517: serialize the record and send it.
PublishDirect(w) ==
  /\ Pc(w) = "direct_send"
  /\ chan' = Append(chan, wk[w].r[1])
  /\ wk' = EndIteration(w)
  /\ hist' = [hist EXCEPT !.saw429[w] = FALSE, !.off_at_pick[w] = {},
                          !.resps[w] = <<>>,
                          !.sent = Append(@, [w |-> w, line |-> chan'[Len(chan')]])]
  /\ UNCHANGED <<args, stdin, uids, run_result, net, main_pc, concurrency, now, stop, next_idx,
                 consecutive_fails, proxy_states, guard, tx_open, writer_done, stdout>>

----------------------------------------------------------------------------
(* The writer task (lines 398-402) and the end of run() (lines 523-529). *)

\* Every sender is gone: run() dropped tx and every worker task, owning a clone, ended.
AllSendersDropped == ~tx_open /\ \A w \in Workers : Pc(w) = "exit"

\* Mutant of Recv: the receiver takes the newest line of the queue.
RecvNewest(queue) ==
  [line |-> queue[Len(queue)], rest |-> SubSeq(queue, 1, Len(queue) - 1)]

\* rx.recv() on a queue that holds lines (line 399): the oldest line, and what stays.
Recv(queue) == [line |-> Head(queue), rest |-> Tail(queue)]

\* rx.recv() yields a line, println! prints it.
WriterRecv ==
  /\ main_pc \in {"join", "drop_tx", "await_writer"}
  /\ ~writer_done
  /\ chan # <<>>
  /\ stdout' = Append(stdout, Recv(chan).line)
  /\ chan' = Recv(chan).rest
  /\ UNCHANGED <<args, stdin, uids, run_result, net, main_pc, concurrency, now, stop, next_idx,
                 consecutive_fails, proxy_states, guard, wk, tx_open, writer_done, hist>>

\* Mutant of RecvNone: recv gives up as soon as the queue is closed, whatever it holds.
RecvNoneOnClose(queue, closed) == closed

\* Mutant of RecvNone: recv never reports the end of the queue.
RecvNever(queue, closed) == FALSE

\* rx.recv() yields None (line 399): the queue is closed and holds nothing more.
RecvNone(queue, closed) == closed /\ queue = <<>>

\* The writer's loop ends (lines 399-401): the task is finished.
WriterExit ==
  /\ main_pc = "await_writer"
  /\ ~writer_done
  /\ RecvNone(chan, AllSendersDropped)
  /\ writer_done' = TRUE
  /\ UNCHANGED <<args, stdin, uids, run_result, net, main_pc, concurrency, now, stop, next_idx,
                 consecutive_fails, proxy_states, guard, wk, chan, tx_open, stdout, hist>>

\* lines 523-525: every worker task has been awaited.
Join ==
  /\ main_pc = "join"
  /\ \A w \in Workers : Pc(w) = "exit"
  /\ main_pc' = "drop_tx"
  /\ UNCHANGED <<args, stdin, uids, run_result, net, concurrency, now, stop, next_idx,
                 consecutive_fails, proxy_states, guard, wk, chan, tx_open, writer_done, stdout,
                 hist>>

\* line 527
DropTx ==
  /\ main_pc = "drop_tx"
  /\ tx_open' = FALSE
  /\ main_pc' = "await_writer"
  /\ UNCHANGED <<args, stdin, uids, run_result, net, concurrency, now, stop, next_idx,
                 consecutive_fails, proxy_states, guard, wk, chan, writer_done, stdout, hist>>

\* lines 528-529: the writer has been awaited; run() returns Ok(()).
Return ==
  /\ main_pc = "await_writer"
  /\ writer_done
  /\ main_pc' = "done"
  /\ run_result' = Some(Ok(<<>>))
  /\ UNCHANGED <<args, stdin, uids, net, concurrency, now, stop, next_idx, consecutive_fails,
                 proxy_states, guard, wk, chan, tx_open, writer_done, stdout, hist>>

\* Some interval is non-zero.  With every delay and the jitter bound 0 each reservation
\* sets next_at to the instant it reads and, the clock being monotone, every wait is
\* 0 whatever the clock shows: the passing of time then changes nothing.
Paced == delay_ms + no_proxy_delay_ms + jitter_max_ms > 0

\* Time passes.  The clock is capped at MaxTime unless a sleeper still waits for it.
Tick ==
  /\ main_pc = "join"
  /\ Paced
  /\ \/ now < MaxTime
     \/ \E w \in Workers : Pc(w) = "sleep" /\ wk[w].wake > now
  /\ now' = now + 1
  /\ UNCHANGED <<args, stdin, uids, run_result, net, main_pc, concurrency, stop, next_idx,
                 consecutive_fails, proxy_states, guard, wk, chan, tx_open, writer_done, stdout,
                 hist>>

Next ==
  \/ Setup
  \/ \E w \in Workers : WorkerStart(w)
  \/ \E w \in Workers : Claim(w)
  \/ \E w \in Workers : PickLock(w)
  \/ \E w \in Workers : PickInspect(w)
  \/ \E w \in Workers : SchedLock(w)
  \/ \E w \in Workers : Schedule(w)
  \/ \E w \in Workers : DirectPace(w)
  \/ \E w \in Workers : Wake(w)
  \/ \E w \in Workers : Fetch(w)
  \/ \E w \in Workers : AcctLock(w)
  \/ \E w \in Workers : Account(w)
  \/ \E w \in Workers : Publish(w)
  \/ \E w \in Workers : DirectAccount(w)
  \/ \E w \in Workers : PublishDirect(w)
  \/ WriterRecv \/ WriterExit
  \/ Join \/ DropTx \/ Return
  \/ Tick

Spec == Init /\ [][Next]_vars

\* The most worker tasks any of the runs explored spawns.
MaxWorkers == 2

\* One step of worker task w, whichever it is.
WorkerStep(w) ==
  \/ WorkerStart(w) \/ Claim(w)
  \/ PickLock(w) \/ PickInspect(w) \/ SchedLock(w) \/ Schedule(w)
  \/ DirectPace(w) \/ Wake(w) \/ Fetch(w)
  \/ AcctLock(w) \/ Account(w) \/ Publish(w)
  \/ DirectAccount(w) \/ PublishDirect(w)

\* The tokio runtime polls every spawned task that can make progress (the worker
\* tasks of line 416, the writer task of line 398) and the task that runs run();
\* every exchange and every sleep completes, and time passes.
Fairness ==
  /\ \A w \in 1 .. MaxWorkers : WF_vars(w \in Workers /\ WorkerStep(w))
  /\ WF_vars(WriterRecv \/ WriterExit)
  /\ WF_vars(Join \/ DropTx \/ Return)
  /\ WF_vars(Tick)

SpecFair == Init /\ [][Next]_vars /\ Fairness

----------------------------------------------------------------------------
(* The construction alone, over a wide range of requested concurrency and *)
(* proxy counts (the clap defaults for everything else).                   *)

DefaultArgs ==
  FromRange(1) @@
  [game |-> GameGs, concurrency |-> 1, proxy_urls |-> None, delay_ms |-> 20000,
   jitter_ms |-> 2000, no_proxy_delay_ms |-> 20000, proxy_max_consecutive_fails |-> 30,
   breaker_max_consecutive_fails |-> 5, breaker_on_429 |-> TRUE]

InitArgs ==
  \E c \in 0 .. MaxArg, n \in 0 .. MaxArg :
    InitWith([DefaultArgs EXCEPT !.concurrency = c, !.proxy_urls = Some(ProxyText(n))],
             <<>>, Answers)

NextArgs == Setup

SpecArgs == InitArgs /\ [][NextArgs]_vars

----------------------------------------------------------------------------
(* The construction alone, over the text inputs: game names, piped and     *)
(* inline identifier lists, ranges, proxy lists.                           *)

GameInputs == {GameGs, <<"Z", "Z", "Z">>, <<" ", "s", "r">>, <<"g", "i">>}

StdinInputs ==
  { <<>>,
    << <<"7">>, <<"8">> >>,
    << <<" ">>, <<"8", " ">> >>,
    << <<"7">>, <<"x">> >> }

InlineInputs ==
  { None,
    Some(<<"1", ",", "2">>),
    Some(<<" ", ";", " ">>),
    Some(<<"1", " ", "x">>),
    Some(<<"+", "3", ";", "3">>),
    Some(<<"9", "9", "9", "9", "9", "9", "9", "9">>) }

StartInputs == {None, Some(5), Some(MaxU64 - 1)}
CountInputs == {None, Some(0), Some(3)}

ProxyInputs ==
  { None,
    Some(<<>>),
    Some(<<"a">>),
    Some(<<"a", ",", "b">>),
    Some(<<"a", ";", " ", "a">>),
    Some(<<"a", ",", "[">>) }

InitConfig ==
  \E g \in GameInputs, flag \in BOOLEAN, input \in StdinInputs, inline \in InlineInputs,
     start \in StartInputs, count \in CountInputs, proxies \in ProxyInputs :
    InitWith([PlainArgs EXCEPT !.game = g, !.uids_stdin = flag, !.uids = inline,
                               !.uid_start = start, !.count = count,
                               !.proxy_urls = proxies],
             input, {Ok200})

NextConfig == Setup

SpecConfig == InitConfig /\ [][NextConfig]_vars

----------------------------------------------------------------------------
(* One identifier fetched once, untimed, through one proxy or directly, over *)
(* a wide range of answers: every short body, and every kind of failure.     *)

\* Longest body explored.
MaxBody == 3
BodyChars == {" ", "\n", "<", "{", "a"}
Bodies == UNION {[1 .. n -> BodyChars] : n \in 0 .. MaxBody}

AllAnswers ==
  Answers \cup
  { Answer("timeout", 0, <<>>),
    Answer("body_err", 200, <<>>),
    Answer("body_err", 429, <<>>),
    Answer("body_err", 503, <<>>) }

\* The network gives one and the same answer with some body, or one of two answers.
FetchNets ==
  {{Answer("text", status, body)} : status \in {200, 503}, body \in Bodies}
    \cup {n \in SUBSET AllAnswers : Cardinality(n) \in {1, 2}}

InitFetch ==
  \E g \in {GameGs, GameSr, GameZzz}, proxies \in {None, Some(ProxyText(1))},
     answers \in FetchNets :
    InitWith(FromInline(1) @@
             [game |-> g, concurrency |-> 1, proxy_urls |-> proxies, delay_ms |-> 0,
              jitter_ms |-> 0, no_proxy_delay_ms |-> 0, proxy_max_consecutive_fails |-> 2,
              breaker_max_consecutive_fails |-> 2, breaker_on_429 |-> TRUE],
             <<>>, answers)

\* No interval is set: no worker sleeps, and the passing of time changes nothing.
NextFetch ==
  \/ Setup
  \/ \E w \in Workers : WorkerStart(w)
  \/ \E w \in Workers : Claim(w)
  \/ \E w \in Workers : PickLock(w)
  \/ \E w \in Workers : PickInspect(w)
  \/ \E w \in Workers : SchedLock(w)
  \/ \E w \in Workers : Schedule(w)
  \/ \E w \in Workers : DirectPace(w)
  \/ \E w \in Workers : Fetch(w)
  \/ \E w \in Workers : AcctLock(w)
  \/ \E w \in Workers : Account(w)
  \/ \E w \in Workers : Publish(w)
  \/ \E w \in Workers : DirectAccount(w)
  \/ \E w \in Workers : PublishDirect(w)
  \/ WriterRecv \/ WriterExit
  \/ Join \/ DropTx \/ Return

SpecFetch == InitFetch /\ [][NextFetch]_vars

----------------------------------------------------------------------------
(* Properties. *)

\* Every record sent so far, in the order sent: printed ones first.
Published == stdout \o chan

\* The worker holds a claimed position: between its claim and its send.
InFlight(w) == Pc(w) \notin {"start", "loop", "exit"}

\* C1: every batch position is claimed at most once, by at most one worker: no two
\* workers ever hold the same cursor value, and no identifier is published twice.
C1_ClaimedAtMostOnce ==
  /\ \A i \in DOMAIN hist.claims : hist.claims[i] <= 1
  /\ \A v, w \in Workers :
       (v # w /\ InFlight(v) /\ InFlight(w)) => wk[v].cur # wk[w].cur
  /\ \A i, j \in DOMAIN Published :
       i # j => Published[i].uid # Published[j].uid

\* Two workers are in flight at once and the whole batch has been claimed.
C1_Witness ==
  /\ \E v, w \in Workers : v # w /\ InFlight(v) /\ InFlight(w)
  /\ hist.claims # <<>>
  /\ \A i \in DOMAIN hist.claims : hist.claims[i] = 1

C3_PoolSpacing ==
  \A i, j \in DOMAIN hist.dispatches :
    LET a == hist.dispatches[i]
        b == hist.dispatches[j]
    IN (i < j /\ a.proxy # None /\ a.proxy = b.proxy) =>
         (b.at - a.at >= delay_ms \/ a.at - b.at >= delay_ms)

\* C4: the selection routine returns an entry only when the flag it inspected under
\* the guard is false, and never an entry that was disabled when the call started.
C4_NeverPicksDisabled ==
  [][\A w \in Workers :
       (Pc(w) = "pick_locked" /\ wk'[w].pc = "sched") =>
          /\ ~proxy_states[wk'[w].pidx + 1].disabled
          /\ wk'[w].pidx \notin hist.off_at_pick[w]]_vars

\* A selection that started with an entry disabled has returned another entry.
C4_Witness ==
  \E w \in Workers : Pc(w) = "sched" /\ hist.off_at_pick[w] # {}

\* C5: no request is scheduled on, or dispatched through, an entry that was already
\* disabled when its next_at was advanced.
C5_NeverSchedulesDisabled ==
  \A i \in DOMAIN hist.dispatches : ~hist.dispatches[i].was_disabled

\* C6: once an entry's disabled flag is true it stays true.
C6_DisabledTerminal ==
  [][\A p \in DOMAIN proxy_states :
       proxy_states[p].disabled => (p \in DOMAIN proxy_states' /\ proxy_states'[p].disabled)]_vars

\* A success was accounted on an entry after it had been disabled: the late success
\* reset the fault count of the disabled entry.
C6_Witness ==
  \E p \in DOMAIN proxy_states :
    proxy_states[p].disabled /\ proxy_states[p].consecutive_fails = 0

\* C7: in pool mode, accounting an outcome of status 429 leaves the used entry
\* disabled and the record's proxy_disabled true, whatever the fault count.
C7_Status429Disables ==
  /\ \A w \in Workers :
       (Pc(w) = "send" /\ wk[w].r[1].status = Some(429)) =>
          /\ proxy_states[wk[w].pidx + 1].disabled
          /\ wk[w].proxy_disabled = Some(TRUE)
  /\ \A k \in DOMAIN Published :
       (Published[k].proxy # None /\ Published[k].status = Some(429)) =>
          Published[k].proxy_disabled = Some(TRUE)

\* A 429 has been accounted on an entry whose fault count is below the threshold.
C7_Witness ==
  \E w \in Workers :
    /\ Pc(w) = "send"
    /\ wk[w].r[1].status = Some(429)
    /\ proxy_states[wk[w].pidx + 1].consecutive_fails < proxy_max_consec

\* C8: in pool mode, a worker that received a 429 from any candidate of its fetch
\* has left the entry disabled when accounting is over.
C8_Every429Disables ==
  \A w \in Workers :
    (Pc(w) = "send" /\ hist.saw429[w]) => proxy_states[wk[w].pidx + 1].disabled

\* C9: in direct mode with breaker_on_429, an outcome of status 429 sets the stop
\* flag; its record is the last one published and no identifier is claimed after it.
C9_Direct429Stops ==
  (main_pc # "start" /\ ~has_proxy /\ breaker_on_429) =>
     /\ \A w \in Workers :
          (Pc(w) = "direct_send" /\ wk[w].r[1].status = Some(429)) => stop
     /\ \A k \in DOMAIN Published :
          Published[k].status = Some(429) =>
             /\ stop
             /\ k = Len(Published)
             /\ next_idx <= Len(uids) /\ Published[k].uid = uids[next_idx]
             /\ \A w \in Workers : Pc(w) \in {"loop", "exit"}

\* The very first request answered 429 with the counter below the threshold; its
\* record has been printed and the worker has left the loop.
C9_Witness ==
  /\ ~has_proxy /\ breaker_on_429
  /\ Len(stdout) = 1 /\ stdout[1].status = Some(429) /\ stdout[1].uid = uids[1]
  /\ consecutive_fails < breaker_max
  /\ \A w \in Workers : Pc(w) = "exit"

\* C10: the number of workers started is 1 when the proxy list is empty and
\* min(clamp(requested, 1, 50), P) when it has P >= 1 entries.
C10_WorkerCount ==
  main_pc # "start" =>
    LET P   == Len(proxy_urls)
        req == args.concurrency
        clamped == IF req < 1 THEN 1 ELSE IF req > 50 THEN 50 ELSE req
        expected == IF P = 0 THEN 1 ELSE IF clamped < P THEN clamped ELSE P
    IN Cardinality(DOMAIN wk) = expected /\ concurrency = expected

\* Both clamps bite: more than 50 workers requested of a pool of more than 50.
C10_Witness ==
  main_pc # "start" /\ args.concurrency > 50 /\ Len(proxy_urls) > 50

\* C11: the stop flag starts unset, and once it is set no step of the run clears it.
C11_StopMonotone == ~stop /\ [][stop => stop']_vars

\* The breaker has tripped and the run has gone on to its end with the flag set.
C11_Witness == stop /\ main_pc = "done" /\ stdout # <<>>

\* C12: when run() has returned, every batch position a worker claimed has exactly one
\* record printed, and the positions without a record are the ones never claimed.
C12_ClaimedHasOneRecord ==
  main_pc = "done" =>
    \A i \in DOMAIN uids :
      LET records == {k \in DOMAIN stdout : stdout[k].uid = uids[i]}
      IN /\ hist.claims[i] >= 1 => Cardinality(records) = 1
         /\ hist.claims[i] = 0 => records = {}

\* C13: run() takes its steps in order (every worker joined before the queue is closed,
\* the queue closed before the writer is awaited) and does not return before the writer
\* has printed every record a worker sent, also after an early stop.
C13_DrainedBeforeExit ==
  /\ main_pc \in {"drop_tx", "await_writer", "done"} => \A w \in Workers : Pc(w) = "exit"
  /\ main_pc \in {"await_writer", "done"} => ~tx_open
  /\ main_pc \in {"join", "drop_tx"} => (tx_open /\ ~writer_done)
  /\ writer_done => chan = <<>>
  /\ main_pc = "done" => (writer_done /\ chan = <<>>)

\* run() has returned after an early stop, with records printed.
C13_Witness ==
  main_pc = "done" /\ (stop \/ hist.exhausted) /\ Len(stdout) >= 2

\* C14: range mode with start s and count c > 0 gives the batch s, s+1, ..., s+c-1 in
\* this order, c identifiers, no identifier twice.
C14_RangeExact ==
  (/\ main_pc = "join"
   /\ ~args.uids_stdin /\ args.uids = None
   /\ args.uid_start # None /\ args.count # None) =>
     LET s == args.uid_start[1]
         c == args.count[1]
     IN /\ c > 0
        /\ Len(uids) = c
        /\ \A i \in DOMAIN uids : uids[i] = s + (i - 1)
        /\ \A i, j \in DOMAIN uids : i # j => uids[i] # uids[j]

\* A configuration error: a game run() does not know, identifiers that do not
\* resolve, a proxy URL that is none.
ConfigError ==
  \/ ~supported_game(game)
  \/ ~read_uids(args, stdin).ok
  \/ \E i \in DOMAIN proxy_urls : ~ProxyAllOk(proxy_urls[i])

\* No task has been spawned, no request scheduled, no record sent or printed.
NothingStarted ==
  /\ wk = <<>> /\ proxy_states = <<>> /\ ~tx_open
  /\ next_idx = 0 /\ hist.dispatches = <<>>
  /\ chan = <<>> /\ stdout = <<>>

\* C15: with a configuration error run() returns an error, and it does so before a
\* worker is started, a request issued or a record emitted.
C15_ErrorBeforeStart ==
  /\ ConfigError => (main_pc \in {"start", "error"} /\ NothingStarted)
  /\ main_pc = "error" => (ConfigError /\ run_result # None /\ ~run_result[1].ok)

\* run() has returned the error of the last check it makes, a proxy URL that is none,
\* after the identifiers resolved.
C15_Witness ==
  /\ main_pc = "error"
  /\ run_result[1].error[1] = "invalid proxy url"
  /\ read_uids(args, stdin).ok

\* The tokens of the piped list (when --uids-stdin is given) and of the inline list.
PipedTokens ==
  IF args.uids_stdin
    THEN SelectSeq([i \in DOMAIN stdin |-> Trim(stdin[i])], NonEmpty) ELSE <<>>
InlineTokens == IF args.uids # None THEN parse_list(args.uids[1]) ELSE <<>>
Unparseable(tokens) == \E i \in DOMAIN tokens : parse_u64(tokens[i]) = None
Values(tokens) == [i \in DOMAIN tokens |-> parse_u64(tokens[i])[1]]

\* run() returned the error `kind`.
Failed(kind) ==
  main_pc = "error" /\ run_result # None /\ ~run_result[1].ok
    /\ run_result[1].error[1] = kind

\* run() went on with `batch`, or failed later, on a proxy URL.
Resolved(batch) ==
  \/ main_pc = "join" /\ uids = batch
  \/ Failed("invalid proxy url")

\* C16 as stated: whatever else is supplied, a supplied token that does not parse, or
\* a count of zero, makes identifier resolution fail.
C16_AnyBadInputFails ==
  (main_pc # "start" /\ supported_game(game)) =>
     ((Unparseable(PipedTokens) \/ Unparseable(InlineTokens) \/ args.count = Some(0))
        => (Failed("invalid uid") \/ Failed("count must be > 0")))

\* C16, amended: the piped list (when requested), the inline list and the range are
\* tried in this order and the first non-empty batch is the result; resolution fails
\* on a token of a strategy it tries that does not parse, on a count of zero when it
\* comes to the range, and when no strategy yields an identifier.
C16_FirstNonEmptyStrategy ==
  (main_pc # "start" /\ supported_game(game)) =>
     IF Unparseable(PipedTokens) THEN Failed("invalid uid")
     ELSE IF PipedTokens # <<>> THEN Resolved(Values(PipedTokens))
     ELSE IF Unparseable(InlineTokens) THEN Failed("invalid uid")
     ELSE IF InlineTokens # <<>> THEN Resolved(Values(InlineTokens))
     ELSE IF args.uid_start # None /\ args.count # None
       THEN IF args.count[1] = 0 THEN Failed("count must be > 0")
            ELSE /\ Resolved(uids)
                 /\ main_pc = "join" =>
                      (Len(uids) = args.count[1] /\ uids[1] = args.uid_start[1])
     ELSE Failed("missing uids input")

\* The piped list gave the batch although the inline list holds a token that is no
\* number and the count is zero.
C16_Witness ==
  /\ main_pc = "join"
  /\ PipedTokens # <<>> /\ uids = Values(PipedTokens)
  /\ Unparseable(InlineTokens)
  /\ args.count = Some(0)

\* C18: no two entries of the pool built at startup have the same URL.
C18_DistinctPoolUrls ==
  \A i, j \in DOMAIN proxy_states :
    i # j => proxy_states[i].url # proxy_states[j].url

\* The candidates of worker w's fetch, the answers they were given, and the candidate
\* whose answer the result reports (the one its base names).
UrlsOf(w) == build_urls(game, wk[w].uid)
Reported(w) == CHOOSE i \in DOMAIN UrlsOf(w) : wk[w].r[1].base = Some(UrlsOf(w)[i])
Fetched(w) == wk[w].r # None /\ hist.resps[w] # <<>>

\* The body's first character after its leading whitespace is '<'.
StartsWithTag(text) ==
  \E i \in DOMAIN text :
    text[i] = "<" /\ \A j \in 1 .. i - 1 : text[j] \in {" ", "\t", "\n", "\r"}

\* Candidate i answered status 200 with a body that is not HTML.
Usable(w, i) ==
  LET a == hist.resps[w][i]
  IN a.kind = "text" /\ a.status = 200 /\ ~StartsWithTag(a.text)

\* C17: the fetch succeeds with the first candidate, in list order, that answers 200
\* with a non-HTML body, and reports that candidate's URL and its whole body whatever
\* the later candidates would answer; it fails when no candidate does.  With two
\* mirrors answering 503 and 200 JSON it succeeds with the second mirror.
C17_FirstUsableCandidate ==
  \A w \in Workers : Fetched(w) =>
    LET r == wk[w].r[1]
    IN /\ \A i \in DOMAIN UrlsOf(w) :
            (Usable(w, i) /\ \A j \in 1 .. i - 1 : ~Usable(w, j)) =>
               /\ r.ok /\ r.status = Some(200) /\ ~r.is_html
               /\ r.base = Some(UrlsOf(w)[i])
               /\ r.body = Some(hist.resps[w][i].text)
       /\ (\A i \in DOMAIN UrlsOf(w) : ~Usable(w, i)) => ~r.ok
       /\ (game = GameZzz /\ hist.resps[w] = <<Down503, Ok200>>) =>
            /\ r.ok
            /\ r.base[1].base = "profile.microgg.cn"
            /\ r.body = Some(JsonBody)

\* The first mirror answered 503, the second 200 with JSON: the second one's answer
\* is the result.
C17_Witness ==
  \E w \in Workers :
    /\ Fetched(w) /\ game = GameZzz
    /\ hist.resps[w] = <<Down503, Ok200>>
    /\ wk[w].r[1].ok

\* C19: a body is classified HTML exactly when its first character after the leading
\* whitespace is '<': the flag of a result whose reported candidate answered with a
\* body says so, and such a body is never a success.
C19_HtmlIffTag ==
  \A w \in Workers : Fetched(w) =>
    LET r == wk[w].r[1]
        a == hist.resps[w][Reported(w)]
    IN a.kind = "text" =>
         /\ r.is_html = StartsWithTag(a.text)
         /\ StartsWithTag(a.text) => ~r.ok
         /\ (a.text = <<>> \/ (a.text # <<>> /\ a.text[1] = "{")) => ~r.is_html

\* A body of whitespace followed by '<' has been classified HTML.
C19_Witness ==
  \E w \in Workers :
    /\ Fetched(w)
    /\ hist.resps[w][Reported(w)].kind = "text"
    /\ hist.resps[w][Reported(w)].text = <<" ", "\n", "<">>
    /\ wk[w].r[1].is_html

\* C20: in pool mode accounting counts an outcome as a proxy fault exactly when it is
\* a transport or timeout failure, a failure while reading the body included, or its
\* body was classified HTML, or its status is 429.
C20_FaultIffTransportHtml429 ==
  [][\A w \in Workers :
       (Pc(w) = "acct_locked" /\ wk'[w].pc = "send") =>
          LET p == wk[w].pidx + 1
              r == wk[w].r[1]
              a == hist.resps[w][Reported(w)]
              counted == proxy_states'[p].consecutive_fails
                           = proxy_states[p].consecutive_fails + 1
              fault == \/ a.kind \in {"send_err", "timeout", "body_err"}
                       \/ r.is_html
                       \/ r.status = Some(429)
          IN counted <=> fault]_vars

\* C21: accounting an outcome on an entry whose count is k leaves the count at k + 1
\* for a fault (a transport or timeout failure, an HTML body, or status 429), at 0 for
\* a success and at k for any other failure, which does not disable the entry either.
C21_CountTransitions ==
  [][\A w \in Workers :
       (Pc(w) = "acct_locked" /\ wk'[w].pc = "send") =>
          LET p     == wk[w].pidx + 1
              r     == wk[w].r[1]
              a     == hist.resps[w][Reported(w)]
              k     == proxy_states[p].consecutive_fails
              fault == \/ a.kind \in {"send_err", "timeout", "body_err"}
                       \/ r.is_html
                       \/ r.status = Some(429)
          IN /\ r.ok => proxy_states'[p].consecutive_fails = 0
             /\ (~r.ok /\ fault) => proxy_states'[p].consecutive_fails = k + 1
             /\ (~r.ok /\ ~fault) =>
                  /\ proxy_states'[p].consecutive_fails = k
                  /\ proxy_states'[p].disabled = proxy_states[p].disabled
                  /\ wk'[w].proxy_disabled = None]_vars

\* C22: an entry that is not disabled has a fault count below the threshold
\* (proxy_max_consecutive_fails clamped to 1..200).
C22_EnabledBelowThreshold ==
  \A p \in DOMAIN proxy_states :
    ~proxy_states[p].disabled =>
       /\ proxy_states[p].consecutive_fails
            < (IF args.proxy_max_consecutive_fails < 1 THEN 1
               ELSE IF args.proxy_max_consecutive_fails > 200 THEN 200
               ELSE args.proxy_max_consecutive_fails)
       /\ proxy_states[p].consecutive_fails >= 0

\* The fault that brought the count to a threshold of 2 has disabled the entry, and it
\* was no 429.
C22_Witness ==
  \E w \in Workers :
    /\ Pc(w) = "send"
    /\ wk[w].r[1].status # Some(429)
    /\ wk[w].proxy_disabled = Some(TRUE)
    /\ args.proxy_max_consecutive_fails = 2
    /\ proxy_states[wk[w].pidx + 1].consecutive_fails = 2
    /\ proxy_states[wk[w].pidx + 1].disabled

\* C23: in direct mode every failed fetch adds one to the global counter and every
\* success resets it to zero, the stop flag is set when the counter reaches the
\* breaker threshold (breaker_max_consecutive_fails clamped to 1..200), and so the
\* counter is below the threshold whenever the stop flag is unset.
C23_BreakerCounter ==
  /\ [](~has_proxy /\ ~stop =>
         consecutive_fails
           < (IF args.breaker_max_consecutive_fails < 1 THEN 1
              ELSE IF args.breaker_max_consecutive_fails > 200 THEN 200
              ELSE args.breaker_max_consecutive_fails))
  /\ [][\A w \in Workers :
          (Pc(w) = "direct_acct" /\ wk'[w].pc = "direct_send") =>
             /\ wk[w].r[1].ok => consecutive_fails' = 0
             /\ ~wk[w].r[1].ok => consecutive_fails' = consecutive_fails + 1
             /\ consecutive_fails'
                  >= (IF args.breaker_max_consecutive_fails < 1 THEN 1
                      ELSE IF args.breaker_max_consecutive_fails > 200 THEN 200
                      ELSE args.breaker_max_consecutive_fails) => stop']_vars

\* One failure below a threshold of 2 has been counted and the run goes on.
C23_Witness ==
  /\ ~has_proxy /\ ~stop
  /\ args.breaker_max_consecutive_fails = 2
  /\ consecutive_fails = 1
  /\ \E w \in Workers : Pc(w) = "direct_send" /\ ~wk[w].r[1].ok

\* C24: in direct mode two consecutive requests have dispatch instants (scheduling
\* instant plus computed wait) at least no_proxy_delay_ms apart.
C24_DirectSpacing ==
  \A i \in DOMAIN hist.dispatches :
    (i > 1 /\ hist.dispatches[i].proxy = None) =>
       hist.dispatches[i].at - hist.dispatches[i - 1].at >= no_proxy_delay_ms

\* C25: a scheduling step on an entry at time now waits max(0, next_at - now), never a
\* negative time, and sets next_at to now + delay_ms + j with 0 <= j < jitter_ms (j = 0
\* when jitter_ms is 0), the sum saturating at u64::MAX; the entry's other fields and
\* the other entries stay as they were.
C25_SchedulingStep ==
  [][\A w \in Workers :
       (Pc(w) = "sched_locked" /\ wk'[w].pc \in {"fetch", "sleep"}) =>
          LET p    == wk[w].pidx + 1
              st   == proxy_states[p]
              at   == hist'.dispatches[Len(hist'.dispatches)].at
              wait == at - now
              js   == IF args.jitter_ms = 0 THEN {0}
                      ELSE {j \in 0 .. args.jitter_ms : j < args.jitter_ms}
          IN /\ wait >= 0
             /\ wait = (IF st.next_at - now > 0 THEN st.next_at - now ELSE 0)
             /\ (wk'[w].pc = "sleep") = (wait > 0)
             /\ wk'[w].pc = "sleep" => wk'[w].wake = now + wait
             /\ \E j \in js :
                  proxy_states'[p].next_at
                    = now + (IF args.delay_ms + j > MaxU64 THEN MaxU64
                             ELSE args.delay_ms + j)
             /\ proxy_states'[p].url = st.url
             /\ proxy_states'[p].disabled = st.disabled
             /\ proxy_states'[p].consecutive_fails = st.consecutive_fails
             /\ \A q \in DOMAIN proxy_states : q # p => proxy_states'[q] = proxy_states[q]]_vars

\* A worker sleeps out a positive wait after a scheduling step that drew a jitter of
\* one.
C25_Witness ==
  \E w \in Workers :
    /\ Pc(w) = "sleep" /\ wk[w].wake > now
    /\ has_proxy /\ args.jitter_ms = 2
    /\ proxy_states[wk[w].pidx + 1].next_at = now + args.delay_ms + 1

\* The sum of delay and jitter was cut at u64::MAX.
C25_SaturatedWitness ==
  \E w \in Workers :
    /\ Pc(w) = "fetch"
    /\ args.delay_ms = MaxU64 /\ args.jitter_ms = 2
    /\ proxy_states[wk[w].pidx + 1].next_at = MaxU64

\* C26: a worker that sleeps out its wait or has an HTTP exchange in flight holds no
\* entry's guard; a guard is held only by a worker in the selection check, the
\* scheduling step or the accounting step.
C26_NoGuardWhileWaiting ==
  \A p \in DOMAIN guard :
    \A w \in Workers :
      guard[p] = Some(w) =>
        /\ Pc(w) \notin {"sleep", "fetch"}
        /\ Pc(w) \in {"pick_locked", "sched_locked", "acct_locked"}

\* One worker sleeps or fetches through an entry while another worker holds that
\* entry's guard for its own scheduling step.
C26_Witness ==
  \E v, w \in Workers :
    /\ v # w
    /\ Pc(v) \in {"sleep", "fetch"}
    /\ Pc(w) = "sched_locked"
    /\ wk[w].pidx = wk[v].pidx
    /\ guard[wk[v].pidx + 1] = Some(w)

\* C27: when no candidate succeeds, the failure outcome carries the status, HTML flag,
\* error text and URL of the last candidate tried: after a transport error or timeout
\* on the last candidate the status is absent and the HTML flag false, whatever an
\* earlier candidate returned.
C27_FailureReportsLastCandidate ==
  \A w \in Workers : (Fetched(w) /\ ~wk[w].r[1].ok) =>
    LET r == wk[w].r[1]
        n == Len(UrlsOf(w))
        a == hist.resps[w][n]
    IN /\ r.base = Some(UrlsOf(w)[n])
       /\ r.body = None
       /\ a.kind \in {"send_err", "timeout"} =>
            /\ r.status = None
            /\ ~r.is_html
            /\ r.error = Some(<<a.kind>>)
       /\ a.kind = "body_err" =>
            /\ r.status = Some(a.status)
            /\ ~r.is_html
            /\ r.error = Some(<<"body_err">>)
       /\ a.kind = "text" =>
            /\ r.status = Some(a.status)
            /\ r.is_html = StartsWithTag(a.text)
            /\ r.error = Some(<<"http", a.status, StartsWithTag(a.text), a.text>>)

\* The first mirror answered 503 and the second could not be reached: the outcome has
\* no status.
C27_Witness ==
  \E w \in Workers :
    /\ Fetched(w) /\ game = GameZzz
    /\ hist.resps[w] = <<Down503, SendErr>>
    /\ ~wk[w].r[1].ok
    /\ wk[w].r[1].status = None

\* C28: an outcome carries a retry-after exactly when it is a failure whose last
\* status is 429, and the value is max(300000, 10 * delay_ms) with the product cut at
\* u64::MAX.  The worker does not use it: while a worker holds such an outcome its
\* steps move no next_at, no direct_next_at and no wake time, and the counters move
\* only by the one the failure itself counts; the next direct request waits
\* max(0, direct_next_at - now) as after any other outcome.
C28_RetryAfterAdvisory ==
  /\ [](\A w \in Workers : wk[w].r # None =>
          LET r == wk[w].r[1]
          IN /\ (r.retry_after_ms # None) = (~r.ok /\ r.status = Some(429))
             /\ r.retry_after_ms # None =>
                  r.retry_after_ms[1]
                    = (LET tenfold == IF args.delay_ms * 10 > MaxU64 THEN MaxU64
                                      ELSE args.delay_ms * 10
                       IN IF tenfold > 300000 THEN tenfold ELSE 300000))
  /\ [][\A w \in Workers :
          /\ (wk[w].r # None /\ wk[w].r[1].retry_after_ms # None /\ wk'[w] # wk[w]) =>
                /\ \A p \in DOMAIN proxy_states :
                      /\ proxy_states'[p].next_at = proxy_states[p].next_at
                      /\ proxy_states'[p].consecutive_fails
                           = proxy_states[p].consecutive_fails
                               + (IF Pc(w) = "acct_locked" /\ p = wk[w].pidx + 1
                                    THEN 1 ELSE 0)
                /\ wk'[w].direct_next_at = wk[w].direct_next_at
                /\ wk'[w].wake = wk[w].wake
                /\ consecutive_fails'
                     = consecutive_fails + (IF Pc(w) = "direct_acct" THEN 1 ELSE 0)
          /\ (Pc(w) = "direct" /\ wk'[w].pc \in {"fetch", "sleep"}) =>
                LET at == hist'.dispatches[Len(hist'.dispatches)].at
                IN /\ at - now = (IF wk[w].direct_next_at > now
                                    THEN wk[w].direct_next_at - now ELSE 0)
                   /\ (wk'[w].pc = "sleep") = (at > now)
                   /\ wk'[w].direct_next_at - now
                        >= (IF args.no_proxy_delay_ms > args.delay_ms
                              THEN args.no_proxy_delay_ms ELSE args.delay_ms)
                   /\ wk'[w].direct_next_at - now
                        <= (IF args.no_proxy_delay_ms > args.delay_ms
                              THEN args.no_proxy_delay_ms ELSE args.delay_ms)
                             + args.jitter_ms]_vars

\* A 429 through a proxy with a delay of 40 s: the outcome advises 400 s.
C28_Witness ==
  \E w \in Workers :
    /\ Pc(w) = "send"
    /\ wk[w].r[1].status = Some(429)
    /\ args.delay_ms = 40000
    /\ wk[w].r[1].retry_after_ms = Some(400000)

\* A direct run goes on after a 429: the next request is paced while the clock is
\* still at the instant of the 429.
C28_DirectWitness ==
  \E w \in Workers :
    /\ ~has_proxy /\ main_pc = "join"
    /\ hist.claims # <<>> /\ Len(chan) + Len(stdout) >= 1
    /\ \E i \in DOMAIN chan : chan[i].status = Some(429)
    /\ Pc(w) \in {"fetch", "sleep"}

\* C29: the dispatch cursor never decreases and never exceeds the number of
\* identifiers in the batch.
C29_CursorWithinBatch ==
  /\ [](next_idx <= Len(uids))
  /\ [][next_idx' >= next_idx]_vars

\* C29, amended: the dispatch cursor never decreases and never exceeds the number of
\* identifiers in the batch plus the number of workers (each worker runs past the end
\* once, on the fetch_add that tells it the batch is used up).
C29_CursorWithinBatchPlusWorkers ==
  /\ [](next_idx <= Len(uids) + concurrency)
  /\ [][next_idx' >= next_idx]_vars

\* Two workers have both run past the end of the batch: the cursor stands two above
\* the batch size.
C29_Witness ==
  /\ concurrency = 2
  /\ Len(uids) = NumUids
  /\ next_idx = Len(uids) + 2
  /\ \A w \in Workers : Pc(w) = "exit"

\* C30: selection with hint h over n entries inspects the entries h, h + 1, ...,
\* h + n - 1 (mod n) in this order, one guard at a time, and returns the first it
\* finds not disabled; it reports exhaustion only when every entry is disabled, also
\* while other workers account their outcomes.
C30_SelectionScan ==
  /\ [](\A w \in Workers : Pc(w) \in {"pick", "pick_locked"} =>
          LET n == Len(proxy_states)
              h == wk[w].proxy_idx_hint
          IN /\ h < n /\ wk[w].step < n
             /\ \A k \in 0 .. wk[w].step - 1 : proxy_states[((h + k) % n) + 1].disabled
             /\ Pc(w) = "pick_locked" =>
                  /\ guard[((h + wk[w].step) % n) + 1] = Some(w)
                  /\ \A p \in DOMAIN guard :
                       guard[p] = Some(w) => p = ((h + wk[w].step) % n) + 1)
  /\ [][\A w \in Workers :
          LET n == Len(proxy_states)
              h == wk[w].proxy_idx_hint
              s == wk[w].step
          IN /\ (Pc(w) = "loop" /\ wk'[w].pc = "pick") => wk'[w].step = 0
             /\ (Pc(w) = "pick_locked" /\ wk'[w].pc = "sched") =>
                  /\ wk'[w].pidx = (h + s) % n
                  /\ ~proxy_states[wk'[w].pidx + 1].disabled
                  /\ \A k \in 0 .. s - 1 : proxy_states[((h + k) % n) + 1].disabled
             /\ (Pc(w) = "pick_locked" /\ wk'[w].pc = "pick") =>
                  /\ proxy_states[((h + s) % n) + 1].disabled
                  /\ wk'[w].step = s + 1
                  /\ wk'[w].proxy_idx_hint = h
             /\ (Pc(w) = "pick_locked" /\ wk'[w].pc = "exit") =>
                  /\ s = n - 1
                  /\ \A p \in DOMAIN proxy_states : proxy_states[p].disabled
                  /\ \A p \in DOMAIN proxy_states' : proxy_states'[p].disabled
             /\ (Pc(w) \in {"pick", "pick_locked"} /\ wk'[w].pc = "exit") =>
                  \A p \in DOMAIN proxy_states : proxy_states[p].disabled]_vars

\* A worker whose hint was the second of two entries has scanned both, the second
\* first, and reported exhaustion.
C30_Witness ==
  \E w \in Workers :
    /\ Len(proxy_states) = 2
    /\ hist.exhausted
    /\ Pc(w) = "exit" /\ wk[w].proxy_idx_hint = 1
    /\ \A p \in DOMAIN proxy_states : proxy_states[p].disabled

\* The lines worker w has sent, in the order it sent them.
SentBy(w) ==
  LET Mine(e) == e.w = w
      mine    == SelectSeq(hist.sent, Mine)
  IN [i \in 1 .. Len(mine) |-> mine[i].line]

\* The lines of `out` that report an identifier worker w has sent a line for.
LinesOf(w, out) ==
  LET FromW(l) == \E i \in DOMAIN hist.sent : hist.sent[i].w = w /\ hist.sent[i].line.uid = l.uid
  IN SelectSeq(out, FromW)

IsPrefix(a, b) == Len(a) <= Len(b) /\ \A i \in 1 .. Len(a) : a[i] = b[i]

\* C31: the sink prints the records of one worker in the order that worker sent them,
\* each once and as sent: what is printed of a worker's records is always the first
\* part of what it sent, all of it once run() has returned, and a printed line stays
\* where it is.
C31_PerProducerFifo ==
  /\ [](\A w \in Workers :
          /\ IsPrefix(LinesOf(w, stdout), SentBy(w))
          /\ main_pc = "done" => LinesOf(w, stdout) = SentBy(w))
  /\ [](Len(stdout) + Len(chan) = Len(hist.sent))
  /\ [](main_pc = "done" => Len(stdout) = Len(hist.sent))
  /\ [][stdout' = stdout
         \/ (Len(stdout') = Len(stdout) + 1 /\ IsPrefix(stdout, stdout'))]_vars

\* Two workers have sent records, one of them two, the printed lines of the two
\* workers are interleaved out of batch order, and run() has returned.
C31_Witness ==
  /\ main_pc = "done" /\ concurrency = 2
  /\ \E w \in Workers : Len(SentBy(w)) = 2
  /\ \A w \in Workers : Len(SentBy(w)) >= 1
  /\ Len(stdout) = NumUids
  /\ \E i \in 1 .. Len(stdout) - 1 : stdout[i].uid > stdout[i + 1].uid

\* C32: in pool mode no step sets the stop flag or changes the global fault counter,
\* and accounting an outcome fetched through an entry changes that entry's fault
\* count and disabled flag only: its other fields and the other entries stay.
C32_PoolBreakerInert ==
  /\ [](proxy_states # <<>> => ~stop /\ consecutive_fails = 0)
  /\ [][proxy_states # <<>> =>
          /\ stop' = stop
          /\ consecutive_fails' = consecutive_fails
          /\ \A w \in Workers :
               (Pc(w) = "acct_locked" /\ wk'[w].pc = "send") =>
                  /\ proxy_states'[wk[w].pidx + 1].url = proxy_states[wk[w].pidx + 1].url
                  /\ proxy_states'[wk[w].pidx + 1].next_at
                       = proxy_states[wk[w].pidx + 1].next_at
                  /\ \A q \in DOMAIN proxy_states :
                       q # wk[w].pidx + 1 => proxy_states'[q] = proxy_states[q]]_vars

\* Two failures in a row, as many as the breaker threshold, have been accounted in a
\* run over two entries of which one is still enabled with a fault counted: the worker
\* is about to publish and the run goes on.
C32_Witness ==
  \E w \in Workers :
    /\ Len(proxy_states) = 2
    /\ Pc(w) = "send" /\ ~wk[w].r[1].ok
    /\ \E i \in DOMAIN Published : ~Published[i].ok
    /\ \E q \in DOMAIN proxy_states :
         q # wk[w].pidx + 1 /\ ~proxy_states[q].disabled /\ proxy_states[q].consecutive_fails = 1
    /\ ~stop /\ consecutive_fails = 0

\* C33: under fair scheduling, with every exchange and every sleep completing, a run
\* that has spawned its workers returns Ok(()): every worker exits, and only because
\* the cursor passed the end of the batch, every entry is disabled or the stop flag is
\* set; then the queue is closed, the writer drains it and run() returns.
C33_Terminates ==
  /\ (main_pc = "join" ~> (main_pc = "done" /\ run_result = Some(Ok(<<>>))))
  /\ [](\A w \in Workers : Pc(w) = "exit" =>
          \/ next_idx > Len(uids)
          \/ proxy_states # <<>> /\ \A p \in DOMAIN proxy_states : proxy_states[p].disabled
          \/ stop)
  /\ [](main_pc = "done" =>
          /\ \A w \in Workers : Pc(w) = "exit"
          /\ ~tx_open /\ chan = <<>> /\ writer_done)

\* A run of two workers has returned after the pool was exhausted with part of the
\* batch not fetched.
C33_Witness ==
  /\ main_pc = "done" /\ run_result = Some(Ok(<<>>))
  /\ concurrency = 2
  /\ hist.exhausted /\ Len(stdout) < Len(uids)

\* The entry (1-based) whose guard worker w is waiting to take.
WaitsFor(w) ==
  IF Pc(w) = "pick"
    THEN ScanIdx(wk[w].proxy_idx_hint, wk[w].step, Len(proxy_states)) + 1
    ELSE wk[w].pidx + 1

\* The guards worker w holds.
Held(w) == {p \in DOMAIN guard : guard[p] = Some(w)}

\* C34: the workers never deadlock on the guards.  A worker holds at most one guard,
\* and none while it waits for one; the guard a worker waits for is free or held by
\* another worker that is inside a critical section and can leave it.
C34_NoGuardDeadlock ==
  \A w \in Workers :
    /\ Cardinality(Held(w)) <= 1
    /\ Pc(w) \in {"pick", "sched", "acct"} =>
         /\ Held(w) = {}
         /\ \/ guard[WaitsFor(w)] = None
            \/ \E v \in Workers :
                 /\ v # w
                 /\ guard[WaitsFor(w)] = Some(v)
                 /\ Pc(v) \in {"pick_locked", "sched_locked", "acct_locked"}
                 /\ ENABLED WorkerStep(v)
    /\ Pc(w) \in {"pick", "sched", "acct"} /\ guard[WaitsFor(w)] = None =>
         ENABLED WorkerStep(w)

\* Over two entries, a worker waits for a guard that another worker holds.
C34_Witness ==
  \E v, w \in Workers :
    /\ v # w
    /\ Pc(w) \in {"pick", "sched", "acct"}
    /\ guard[WaitsFor(w)] = Some(v)
    /\ Len(proxy_states) = 2

\* C35: every published record is well-formed.  A success has status 200, no HTML
\* flag, a body, no error text and no retry-after; a failure has no body and has an
\* error text; proxy_disabled is absent or true, and true only in pool mode, set by an
\* accounting that found status 429 or a fault with the count at the threshold, which
\* left the entry disabled.
C35_RecordsWellFormed ==
  /\ [](\A i \in DOMAIN Published :
          LET rec == Published[i]
          IN /\ rec.ok =>
                  /\ rec.status = Some(200) /\ ~rec.is_html
                  /\ rec.body # None
                  /\ rec.error = None /\ rec.retry_after_ms = None
                  /\ rec.proxy_disabled = None
             /\ ~rec.ok => rec.body = None /\ rec.error # None
             /\ rec.proxy_disabled \in {None, Some(TRUE)}
             /\ proxy_states = <<>> => rec.proxy_disabled = None /\ rec.proxy = None
             /\ rec.proxy_disabled = Some(TRUE) =>
                  /\ rec.status = None \/ rec.is_html \/ rec.status = Some(429)
                  /\ \E p \in DOMAIN proxy_states :
                       /\ rec.proxy = Some(proxy_states[p].url)
                       /\ proxy_states[p].disabled)
  /\ [][\A w \in Workers :
          /\ (Pc(w) = "acct_locked" /\ wk'[w].pc = "send") =>
                LET r == wk[w].r[1]
                    T == IF args.proxy_max_consecutive_fails < 1 THEN 1
                         ELSE IF args.proxy_max_consecutive_fails > 200 THEN 200
                         ELSE args.proxy_max_consecutive_fails
                    hit == /\ ~r.ok
                           /\ \/ r.status = Some(429)
                              \/ /\ r.status = None \/ r.is_html
                                 /\ proxy_states'[wk[w].pidx + 1].consecutive_fails >= T
                IN wk'[w].proxy_disabled = (IF hit THEN Some(TRUE) ELSE None)
          /\ (Pc(w) = "send" /\ wk'[w].pc = "loop") =>
                chan' = Append(chan, [wk[w].r[1] EXCEPT
                                        !.proxy_disabled = wk[w].proxy_disabled])
          /\ (Pc(w) = "direct_send" /\ wk'[w].pc = "loop") =>
                /\ chan' = Append(chan, wk[w].r[1])
                /\ wk[w].r[1].proxy_disabled = None]_vars

\* A success and a failure that tripped the threshold without a 429 have both been
\* published.
C35_Witness ==
  /\ \E i \in DOMAIN Published : Published[i].ok
  /\ \E i \in DOMAIN Published :
       /\ Published[i].proxy_disabled = Some(TRUE)
       /\ Published[i].status # Some(429)

====
